---- MODULE Spec2Model ----
(***************************************************************************)
(* yakstack: a multi-stack task store kept in one SQLite file, with        *)
(* detached reminder workers.  The state is the four tables; every action  *)
(* is one call of a function of src/src/commands.rs, with the SQL it runs  *)
(* evaluated on the tables.                                                *)
(***************************************************************************)
EXTENDS Integers, Sequences, FiniteSets, TLC

\* ---- bounds of the model ------------------------------------------------
\* task ids (so also the number of tasks) and |task_order| the full store may
\* reach, the same for the runs that only insert, for the runs with reminders
\* and with swaps, and the reminders scheduled; the same for the runs with
\* several processes
MaxTasks == 4
MaxOrder == 2
MaxSeqTasks == 4
MaxSeqOrder == 3
MaxRemTasks == 2
MaxRemOrder == 1
MaxSwapTasks == 3
MaxReminders == 1
MaxLockTasks == 1
MaxMainTasks == 5
MaxLockReminders == 2
MaxProcTasks == 3
MaxCalls == 1

\* ---- inputs -------------------------------------------------------------
Texts == {"a", "b"}
OneText == {"a"}
PushedText == {"p"}
StackNames == {"default", "work"}

\* ---- program constants --------------------------------------------------
DEFAULT_STACK_ID == 1

VARIABLES stacks, app_state, tasks, reminders, workers, calls, last

vars == <<stacks, app_state, tasks, reminders, workers, calls, last>>
db == <<stacks, app_state, tasks, reminders>>

\* ---- SQL helpers --------------------------------------------------------
Max(S) == CHOOSE x \in S : \A y \in S : y <= x
Min(S) == CHOOSE x \in S : \A y \in S : x <= y

\* rowid of a row inserted without an id: INTEGER PRIMARY KEY, no AUTOINCREMENT
NewRowId(rows) == IF rows = {} THEN 1 ELSE Max({r.id : r \in rows}) + 1

\* ... FROM tasks WHERE stack_id = ?
StackTasks(ts, sid) == {t \in ts : t.stack_id = sid}

\* rows that row_number() OVER (ORDER BY task_order) may number idx + 1;
\* rows with equal task_order are numbered in an order SQLite leaves open
RowsAtIndex(rows, idx) ==
    {t \in rows :
        /\ Cardinality({u \in rows : u.task_order < t.task_order}) <= idx
        /\ idx < Cardinality({u \in rows : u.task_order <= t.task_order})}

\* SELECT stack_id FROM app_state
get_current_stack_id == app_state

\* outcome of a call, as the caller sees it
Outcome(op, res, val) == [op |-> op, res |-> res, val |-> val]

\* ---- initial state: init_db ---------------------------------------------
Init ==
    /\ stacks = {[id |-> DEFAULT_STACK_ID, name |-> "default"]}
    /\ app_state = DEFAULT_STACK_ID
    /\ tasks = {}
    /\ reminders = {}
    /\ workers = {}
    /\ calls = {}
    /\ last = Outcome("init_db", "Ok", <<>>)

\* ---- push / pushback / pop ----------------------------------------------
\* coalesce(max(task_order) + 1, 1) FROM tasks
PushOrder(ts) == IF ts = {} THEN 1 ELSE Max({t.task_order : t \in ts}) + 1

\* PushbackOrder computed as push computes it
PushbackOrderAsPush(ts) == IF ts = {} THEN 1 ELSE Max({t.task_order : t \in ts}) + 1

\* coalesce(min(task_order) - 1, 1) FROM tasks
PushbackOrder(ts) == IF ts = {} THEN 1 ELSE Min({t.task_order : t \in ts}) - 1

PushTask(ts, cur, x) ==
    ts \cup {[id |-> NewRowId(ts), task |-> x,
              task_order |-> PushOrder(ts), stack_id |-> cur]}

PushbackTask(ts, cur, x) ==
    ts \cup {[id |-> NewRowId(ts), task |-> x,
              task_order |-> PushbackOrder(ts), stack_id |-> cur]}

push_task(x) ==
    /\ tasks' = PushTask(tasks, get_current_stack_id, x)
    /\ last' = Outcome("push_task", "Ok", <<>>)
    /\ UNCHANGED <<stacks, app_state, reminders, workers, calls>>

pushback_task(x) ==
    /\ tasks' = PushbackTask(tasks, get_current_stack_id, x)
    /\ last' = Outcome("pushback_task", "Ok", <<>>)
    /\ UNCHANGED <<stacks, app_state, reminders, workers, calls>>

\* no cascade: the reminders stay
CascadeNone(rs, ts) == rs

\* ON DELETE CASCADE from tasks to reminders
Cascade(rs, ts) == {r \in rs : \E t \in ts : t.id = r.task_id}

\* TopTasks without the two tests of stack_id: the top of the whole table
TopTasksAllStacks(ts, cur) ==
    {t \in ts : t.task_order = Max({u.task_order : u \in ts})}

\* TopTasks with min for max: the bottom of the stack
TopTasksMin(ts, cur) ==
    {t \in StackTasks(ts, cur) :
        t.task_order = Min({u.task_order : u \in StackTasks(ts, cur)})}

\* rows of: SELECT id FROM tasks WHERE task_order = (SELECT max(task_order)
\*          FROM tasks WHERE stack_id = ?) AND stack_id = ?
TopTasks(ts, cur) ==
    {t \in StackTasks(ts, cur) :
        t.task_order = Max({u.task_order : u \in StackTasks(ts, cur)})}

pop_task ==
    \/ /\ TopTasks(tasks, get_current_stack_id) = {}
       /\ last' = Outcome("pop_task", "Ok", <<>>)
       /\ UNCHANGED <<stacks, app_state, tasks, reminders, workers, calls>>
    \/ \E t \in TopTasks(tasks, get_current_stack_id) :
          /\ tasks' = tasks \ {t}
          /\ reminders' = Cascade(reminders, tasks')
          /\ last' = Outcome("pop_task", "Ok", <<t.task>>)
          /\ UNCHANGED <<stacks, app_state, workers, calls>>

\* ---- clear ---------------------------------------------------------------
clear_tasks ==
    /\ tasks' = tasks \ StackTasks(tasks, get_current_stack_id)
    /\ reminders' = Cascade(reminders, tasks')
    /\ last' = Outcome("clear_tasks", "Ok", <<>>)
    /\ UNCHANGED <<stacks, app_state, workers, calls>>

clear_all_tasks ==
    /\ tasks' = {}
    /\ reminders' = Cascade(reminders, tasks')
    /\ last' = Outcome("clear_all_tasks", "Ok", <<>>)
    /\ UNCHANGED <<stacks, app_state, workers, calls>>

\* ---- insert_after ---------------------------------------------------------
\* SELECT task_order + 1 FROM (SELECT row_number() OVER (ORDER BY task_order)
\*   task_index, task_order FROM tasks) WHERE task_index = :task_index
InsertOrder(ts, idx) == CHOOSE k \in {t.task_order + 1 : t \in RowsAtIndex(ts, idx)} : TRUE

\* ShiftUp with > for >=: the task at the insertion key is not moved
ShiftUpStrict(ts, cur, k) ==
    {IF t.stack_id = cur /\ t.task_order > k
        THEN [t EXCEPT !.task_order = @ + 1] ELSE t : t \in ts}

\* UPDATE tasks SET task_order = task_order + 1
\*   WHERE task_order >= :task_order AND stack_id = :stack_id
ShiftUp(ts, cur, k) ==
    {IF t.stack_id = cur /\ t.task_order >= k
        THEN [t EXCEPT !.task_order = @ + 1] ELSE t : t \in ts}

\* the tasks table after a successful insert_after(idx, x)
InsertAfter(ts, cur, idx, x) ==
    LET num_tasks == Cardinality(StackTasks(ts, cur)) IN
    IF idx = 0 THEN PushTask(ts, cur, x)
    ELSE IF idx = num_tasks - 1 THEN PushbackTask(ts, cur, x)
    ELSE LET k == InsertOrder(ts, idx) IN
         ShiftUp(ts, cur, k) \cup
            {[id |-> NewRowId(ts), task |-> x, task_order |-> k, stack_id |-> cur]}

insert_after(idx, x) ==
    LET cur == get_current_stack_id
        num_tasks == Cardinality(StackTasks(tasks, cur)) IN
    \/ /\ idx >= num_tasks
       /\ last' = Outcome("insert_after", "NoSuchTask", <<idx>>)
       /\ UNCHANGED <<stacks, app_state, tasks, reminders, workers, calls>>
    \/ /\ idx < num_tasks
       /\ tasks' = InsertAfter(tasks, cur, idx, x)
       /\ last' = Outcome("insert_after", "Ok", <<>>)
       /\ UNCHANGED <<stacks, app_state, reminders, workers, calls>>

\* ---- stacks ---------------------------------------------------------------
\* stack_name_to_id without WHERE name = ?: the id of any stack
StackNameToIdNoWhere(ss, name) == {s.id : s \in ss}

\* SELECT id FROM stacks WHERE name = ?   (name is UNIQUE)
stack_name_to_id(ss, name) == {s.id : s \in {r \in ss : r.name = name}}

new_stack(name) ==
    \/ /\ stack_name_to_id(stacks, name) # {}
       /\ last' = Outcome("new_stack", "StackAlreadyExists", <<name>>)
       /\ UNCHANGED <<stacks, app_state, tasks, reminders, workers, calls>>
    \/ /\ stack_name_to_id(stacks, name) = {}
       /\ stacks' = stacks \cup {[id |-> NewRowId(stacks), name |-> name]}
       /\ last' = Outcome("new_stack", "Ok", <<>>)
       /\ UNCHANGED <<app_state, tasks, reminders, workers, calls>>

switch_to_stack(name) ==
    \/ /\ stack_name_to_id(stacks, name) = {}
       /\ last' = Outcome("switch_to_stack", "NoSuchStack", <<name>>)
       /\ UNCHANGED <<stacks, app_state, tasks, reminders, workers, calls>>
    \/ \E stack_id \in stack_name_to_id(stacks, name) :
          /\ app_state' = stack_id
          /\ last' = Outcome("switch_to_stack", "Ok", <<>>)
          /\ UNCHANGED <<stacks, tasks, reminders, workers, calls>>

\* DropStack without DELETE FROM tasks WHERE stack_id = ?
DropStackKeepTasks(ss, ts, stack_id) ==
    [stacks |-> {s \in ss : s.id # stack_id}, tasks |-> ts]

\* the two DELETEs of drop_stack, in one transaction
DropStack(ss, ts, stack_id) ==
    [stacks |-> {s \in ss : s.id # stack_id},
     tasks |-> {t \in ts : t.stack_id # stack_id}]

\* DropRefusal without the test for the default stack
DropRefusalCurrentOnly(stack_id, current_stack_id) ==
    IF stack_id = current_stack_id THEN "CantDeleteCurrentStack" ELSE "Ok"

\* the two tests drop_stack makes before it deletes anything
DropRefusal(stack_id, current_stack_id) ==
    IF stack_id = DEFAULT_STACK_ID THEN "CantDeleteDefaultStack"
    ELSE IF stack_id = current_stack_id THEN "CantDeleteCurrentStack"
    ELSE "Ok"

drop_stack(name) ==
    LET current_stack_id == get_current_stack_id IN
    \/ /\ stack_name_to_id(stacks, name) = {}
       /\ last' = Outcome("drop_stack", "NoSuchStack", <<name>>)
       /\ UNCHANGED <<stacks, app_state, tasks, reminders, workers, calls>>
    \/ \E stack_id \in stack_name_to_id(stacks, name) :
          IF DropRefusal(stack_id, current_stack_id) # "Ok"
          THEN /\ last' = Outcome("drop_stack", DropRefusal(stack_id, current_stack_id), <<>>)
               /\ UNCHANGED <<stacks, app_state, tasks, reminders, workers, calls>>
          ELSE /\ tasks' = DropStack(stacks, tasks, stack_id).tasks
               /\ stacks' = DropStack(stacks, tasks, stack_id).stacks
               /\ reminders' = Cascade(reminders, tasks')
               /\ last' = Outcome("drop_stack", "Ok", <<>>)
               /\ UNCHANGED <<app_state, workers, calls>>

\* ---- pop_to ---------------------------------------------------------------
\* SELECT id FROM tasks WHERE task_order = (SELECT max(task_order) FROM tasks
\*   WHERE stack_id = :stack_id) WHERE stack_id = :stack_id
\* has two WHERE clauses: SQLite rejects it when the statement is prepared
\* (near "WHERE": syntax error), whatever the tables hold.
PopToQuery(ts, cur) == [err |-> TRUE, rows |-> {}]

pop_to(name) ==
    LET cur == get_current_stack_id
        q == PopToQuery(tasks, cur) IN
    \/ /\ stack_name_to_id(stacks, name) = {}
       /\ last' = Outcome("pop_to", "NoSuchStack", <<name>>)
       /\ UNCHANGED <<stacks, app_state, tasks, reminders, workers, calls>>
    \/ \E destination_stack_id \in stack_name_to_id(stacks, name) :
          IF q.err
          THEN /\ last' = Outcome("pop_to", "Sqlite", <<>>)
               /\ UNCHANGED <<stacks, app_state, tasks, reminders, workers, calls>>
          ELSE IF q.rows = {}
          THEN /\ last' = Outcome("pop_to", "Ok", <<>>)
               /\ UNCHANGED <<stacks, app_state, tasks, reminders, workers, calls>>
          ELSE /\ \E task \in q.rows :
                     tasks' = {IF t.id = task.id
                                  THEN [t EXCEPT !.stack_id = destination_stack_id]
                                  ELSE t : t \in tasks}
               /\ last' = Outcome("pop_to", "Ok", <<>>)
               /\ UNCHANGED <<stacks, app_state, reminders, workers, calls>>

\* ---- listings -------------------------------------------------------------
\* the orders in which ORDER BY task_order may return rows
SortedSeqs(rows) ==
    {s \in [1 .. Cardinality(rows) -> rows] :
        /\ \A i, j \in DOMAIN s : i # j => s[i] # s[j]
        /\ \A i, j \in DOMAIN s : i < j => s[i].task_order <= s[j].task_order}

\* ListTasks without WHERE stack_id = ?
ListTasksAllStacks(ts, cur) ==
    {[i \in DOMAIN s |-> s[i].task] : s \in SortedSeqs(ts)}

\* SELECT task FROM tasks WHERE stack_id = ? ORDER BY task_order
ListTasks(ts, cur) ==
    {[i \in DOMAIN s |-> s[i].task] : s \in SortedSeqs(StackTasks(ts, cur))}

list_tasks ==
    \E result \in ListTasks(tasks, get_current_stack_id) :
       /\ last' = Outcome("list_tasks", "Ok", result)
       /\ UNCHANGED <<stacks, app_state, tasks, reminders, workers, calls>>

\* SELECT name FROM stacks
ListStacks(ss) == {s.name : s \in ss}

list_stacks ==
    /\ last' = Outcome("list_stacks", "Ok", <<ListStacks(stacks)>>)
    /\ UNCHANGED <<stacks, app_state, tasks, reminders, workers, calls>>

\* ---- swap / kill ----------------------------------------------------------
\* task_index_to_task_id with WHERE row = ?: rows are numbered from 1
TaskIdOffByOne(ts, stack_id, task_index) ==
    {t.id : t \in RowsAtIndex(StackTasks(ts, stack_id), task_index - 1)}

\* task_index_to_task_id with ORDER BY task_order DESC: ranks from the top
TaskIdDescending(ts, stack_id, task_index) ==
    {t.id : t \in RowsAtIndex(StackTasks(ts, stack_id),
                              Cardinality(StackTasks(ts, stack_id)) - 1 - task_index)}

\* SELECT id FROM (SELECT id, row_number() OVER (ORDER BY task_order) row
\*   FROM tasks WHERE stack_id = ?) WHERE row = (? + 1)
task_index_to_task_id(ts, stack_id, task_index) ==
    {t.id : t \in RowsAtIndex(StackTasks(ts, stack_id), task_index)}

\* SELECT task_order FROM tasks WHERE stack_id = ? AND id = ?
OrderOf(ts, cur, id) == (CHOOSE t \in StackTasks(ts, cur) : t.id = id).task_order

\* UPDATE tasks SET task_order = ? WHERE id = ?
SetOrder(ts, id, k) == {IF t.id = id THEN [t EXCEPT !.task_order = k] ELSE t : t \in ts}

\* the tables a successful swap_tasks(idx1, idx2) may leave
SwapTasks(ts, cur, idx1, idx2) ==
    LET min == IF idx1 <= idx2 THEN idx1 ELSE idx2
        max == IF idx1 <= idx2 THEN idx2 ELSE idx1 IN
    {SetOrder(SetOrder(ts, min_id, OrderOf(ts, cur, max_id)),
              max_id, OrderOf(ts, cur, min_id)) :
        <<min_id, max_id>> \in task_index_to_task_id(ts, cur, min)
                               \X task_index_to_task_id(ts, cur, max)}

swap_tasks(idx1, idx2) ==
    LET cur == get_current_stack_id
        task_count == Cardinality(StackTasks(tasks, cur)) IN
    \/ /\ (idx1 >= task_count) # (idx2 >= task_count)
       /\ last' = Outcome("swap_tasks", "NoSuchTask",
                          <<IF idx1 >= idx2 THEN idx1 ELSE idx2>>)
       /\ UNCHANGED <<stacks, app_state, tasks, reminders, workers, calls>>
    \/ /\ idx1 >= task_count /\ idx2 >= task_count
       /\ last' = Outcome("swap_tasks", "NoSuchTasks", <<idx1, idx2>>)
       /\ UNCHANGED <<stacks, app_state, tasks, reminders, workers, calls>>
    \/ /\ idx1 < task_count /\ idx2 < task_count
       /\ \E ts \in SwapTasks(tasks, cur, idx1, idx2) : tasks' = ts
       /\ last' = Outcome("swap_tasks", "Ok", <<>>)
       /\ UNCHANGED <<stacks, app_state, reminders, workers, calls>>

\* ---- swap_tasks as the binary of main.rs has it ----------------------------
\* SELECT task_order, id FROM (SELECT task_order, id, row_number() OVER
\*   (ORDER BY task_order) row FROM tasks) WHERE row IN (?, ?)
\* over the whole table; then the two UPDATEs exchange the two task_order
SwapTasksMain(ts, idx1, idx2) ==
    LET min == IF idx1 <= idx2 THEN idx1 ELSE idx2
        max == IF idx1 <= idx2 THEN idx2 ELSE idx1 IN
    {SetOrder(SetOrder(ts, d1.id, d0.task_order), d0.id, d1.task_order) :
        <<d0, d1>> \in {pair \in RowsAtIndex(ts, min) \X RowsAtIndex(ts, max) :
                          pair[1] # pair[2]}}

swap_tasks_main(idx1, idx2) ==
    LET task_count == Cardinality(tasks) IN
    \/ /\ (idx1 >= task_count) # (idx2 >= task_count)
       /\ last' = Outcome("swap_tasks", "NoSuchTask",
                          <<IF idx1 >= idx2 THEN idx1 ELSE idx2>>)
       /\ UNCHANGED <<stacks, app_state, tasks, reminders, workers, calls>>
    \/ /\ idx1 >= task_count /\ idx2 >= task_count
       /\ last' = Outcome("swap_tasks", "NoSuchTasks", <<idx1, idx2>>)
       /\ UNCHANGED <<stacks, app_state, tasks, reminders, workers, calls>>
    \/ /\ idx1 < task_count /\ idx2 < task_count /\ idx1 = idx2
       \* one row comes back and data[1] is out of bounds: the process panics
       \* and the open transaction is rolled back
       /\ last' = Outcome("swap_tasks", "panic", <<>>)
       /\ UNCHANGED <<stacks, app_state, tasks, reminders, workers, calls>>
    \/ /\ idx1 < task_count /\ idx2 < task_count /\ idx1 # idx2
       /\ \E ts \in SwapTasksMain(tasks, idx1, idx2) : tasks' = ts
       /\ last' = Outcome("swap_tasks", "Ok", <<>>)
       /\ UNCHANGED <<stacks, app_state, reminders, workers, calls>>

kill_task(idx) ==
    LET cur == get_current_stack_id
        task_count == Cardinality(StackTasks(tasks, cur)) IN
    \/ /\ idx >= task_count
       /\ last' = Outcome("kill_task", "NoSuchTask", <<idx>>)
       /\ UNCHANGED <<stacks, app_state, tasks, reminders, workers, calls>>
    \/ /\ idx < task_count
       /\ \E task_id \in task_index_to_task_id(tasks, cur, idx) :
          \E t \in {u \in StackTasks(tasks, cur) : u.id = task_id} :
             /\ tasks' = {u \in tasks : ~(u.stack_id = cur /\ u.id = task_id)}
             /\ reminders' = Cascade(reminders, tasks')
             /\ last' = Outcome("kill_task", "Ok", <<t.task>>)
       /\ UNCHANGED <<stacks, app_state, workers, calls>>

\* ---- reminders ------------------------------------------------------------
Digits == <<"0", "1", "2", "3", "4", "5", "6", "7", "8", "9">>
DigitVal(c) == (CHOOSE i \in DOMAIN Digits : Digits[i] = c) - 1
IsDigit(c) == \E i \in DOMAIN Digits : Digits[i] = c
UnitSeconds(c) == IF c = "h" THEN 60 * 60 ELSE IF c = "m" THEN 60 ELSE 1
IsUnit(c) == c \in {"h", "m", "s"}

RECURSIVE Amount(_)
Amount(digits) ==
    IF digits = <<>> THEN 0
    ELSE 10 * Amount(SubSeq(digits, 1, Len(digits) - 1)) + DigitVal(digits[Len(digits)])

\* where the unit stands when (?P<amount>[1-9][0-9]{0,5})(?P<unit>[hms]) matches
\* from position i of the text
UnitAt(spec, i) ==
    {j \in i + 1 .. Len(spec) :
        /\ IsDigit(spec[i]) /\ spec[i] # "0"
        /\ j - i <= 6
        /\ \A k \in i + 1 .. j - 1 : IsDigit(spec[k])
        /\ IsUnit(spec[j])}

\* the regex is not anchored: the leftmost match anywhere in the text counts
parse_delay_spec_into_seconds(spec) ==
    LET starts == {i \in 1 .. Len(spec) : UnitAt(spec, i) # {}} IN
    IF starts = {} THEN [ok |-> FALSE, seconds |-> 0]
    ELSE LET i == Min(starts)
             j == CHOOSE u \in UnitAt(spec, i) : TRUE IN
         [ok |-> TRUE,
          seconds |-> Amount(SubSeq(spec, i, j - 1)) * UnitSeconds(spec[j])]

\* Uuid::new_v4(): an id no reminder and no worker carries yet
NewUuid == Cardinality(workers) + 1

\* the process of Command::new(current_bin).arg("triggerreminder").arg(id):
\* it starts trigger_reminder with a connection its main has opened
SpawnedWorker(id) ==
    [id |-> id, pc |-> "lookup", task_id |-> 0, res |-> "", shown |-> <<>>,
     conn |-> TRUE]

remind_me(task_index, reminder_string) ==
    LET cur == get_current_stack_id
        delay == parse_delay_spec_into_seconds(reminder_string) IN
    \/ /\ task_index >= Cardinality(StackTasks(tasks, cur))
       /\ last' = Outcome("remind_me", "NoSuchTask", <<task_index>>)
       /\ UNCHANGED <<stacks, app_state, tasks, reminders, workers, calls>>
    \/ /\ task_index < Cardinality(StackTasks(tasks, cur))
       /\ ~delay.ok
       /\ last' = Outcome("remind_me", "InvalidReminderTime", <<>>)
       /\ UNCHANGED <<stacks, app_state, tasks, reminders, workers, calls>>
    \/ /\ task_index < Cardinality(StackTasks(tasks, cur))
       /\ delay.ok
       \* current_exe() or spawn() failed: the open transaction is rolled back
       /\ last' = Outcome("remind_me", "Environment", <<>>)
       /\ UNCHANGED <<stacks, app_state, tasks, reminders, workers, calls>>
    \/ /\ task_index < Cardinality(StackTasks(tasks, cur))
       /\ delay.ok
       /\ \E task_id \in task_index_to_task_id(tasks, cur, task_index) :
             reminders' = reminders \cup
                {[id |-> NewUuid, delay |-> delay.seconds, task_id |-> task_id]}
       /\ workers' = workers \cup {SpawnedWorker(NewUuid)}
       /\ last' = Outcome("remind_me", "Ok", <<>>)
       /\ UNCHANGED <<stacks, app_state, tasks, calls>>

\* AfterLookup without db.close(): the worker sleeps with its connection open
AfterLookupKeepOpen(w, r) ==
    [w EXCEPT !.pc = "sleep", !.task_id = r.task_id]

\* the worker that has read its row: it closes the connection, then sleeps
AfterLookup(w, r) ==
    [w EXCEPT !.pc = "sleep", !.task_id = r.task_id, !.conn = FALSE]

\* the worker whose query found no row: `?` returns the error, and the
\* connection is dropped with the process
Failed(w) == [w EXCEPT !.pc = "exit", !.res = "Sqlite", !.conn = FALSE]

\* trigger_reminder up to the sleep: read the row, close the connection
trigger_reminder_lookup(w) ==
    /\ w.pc = "lookup"
    /\ \/ /\ ~\E r \in reminders : r.id = w.id
          /\ workers' = (workers \ {w}) \cup {Failed(w)}
       \/ \E r \in reminders :
             /\ r.id = w.id
             /\ workers' = (workers \ {w}) \cup {AfterLookup(w, r)}
    /\ UNCHANGED <<stacks, app_state, tasks, reminders, calls, last>>

\* trigger_reminder after the sleep: one transaction, then the notification
trigger_reminder_fire(w) ==
    /\ w.pc = "sleep"
    /\ \/ /\ ~\E t \in tasks : t.id = w.task_id
          /\ workers' = (workers \ {w}) \cup {Failed(w)}
          /\ UNCHANGED reminders
       \/ \E t \in tasks :
             /\ t.id = w.task_id
             /\ reminders' = {r \in reminders : r.id # w.id}
             /\ workers' = (workers \ {w}) \cup
                   {[w EXCEPT !.pc = "exit", !.res = "Ok", !.shown = <<t.task>>]}
    /\ UNCHANGED <<stacks, app_state, tasks, calls, last>>

\* ---- remind_me statement by statement, among other processes --------------
\* the processes that may be inside remind_me at the same time
Procs == {"p", "q"}

\* a transaction begun with BEGIN DEFERRED
TransactionDeferred == "Deferred"

\* Transaction::new(db, rusqlite::TransactionBehavior::Exclusive)
TransactionBehavior == "Exclusive"

\* the calls between Transaction::new and the commit or the rollback
InTransaction(c) == c.pc \in {"locked", "inserted", "spawned"}

\* the calls whose transaction has written: they hold at least RESERVED
HasWritten(c) == c.pc \in {"inserted", "spawned"}

\* SQLite's file locks as the other connections meet them: an exclusive
\* transaction holds EXCLUSIVE from its BEGIN and keeps out readers and
\* writers; a deferred one holds RESERVED from its first write to its
\* commit and keeps out writers only
ReadLocked == \E c \in calls : InTransaction(c) /\ TransactionBehavior = "Exclusive"
WriteLocked == ReadLocked \/ \E c \in calls : HasWritten(c)

\* the row the transaction of c has inserted
PendingRow(c) == [id |-> c.reminder_id, delay |-> c.delay, task_id |-> c.task_id]

\* Rollback that leaves the inserted row in the table
RollbackKeepsRow(rs, row) == rs \cup {row}

\* xact goes out of scope without commit(): rusqlite rolls the transaction back
Rollback(rs, row) == rs \ {row}

\* xact.commit()
Commit(rs, row) == rs \cup {row}

\* lines 259-262: the reads and the parse before the transaction
remind_me_resolve(p, task_index, reminder_string) ==
    LET cur == get_current_stack_id
        delay == parse_delay_spec_into_seconds(reminder_string) IN
    /\ ~\E c \in calls : c.p = p
    /\ ~ReadLocked
    /\ \/ /\ task_index >= Cardinality(StackTasks(tasks, cur))
          /\ last' = Outcome("remind_me", "NoSuchTask", <<task_index>>)
          /\ UNCHANGED calls
       \/ /\ task_index < Cardinality(StackTasks(tasks, cur))
          /\ ~delay.ok
          /\ last' = Outcome("remind_me", "InvalidReminderTime", <<>>)
          /\ UNCHANGED calls
       \/ /\ task_index < Cardinality(StackTasks(tasks, cur))
          /\ delay.ok
          \* current_exe() failed
          /\ last' = Outcome("remind_me", "Environment", <<"current_exe">>)
          /\ UNCHANGED calls
       \/ /\ task_index < Cardinality(StackTasks(tasks, cur))
          /\ delay.ok
          /\ \E task_id \in task_index_to_task_id(tasks, cur, task_index) :
                calls' = calls \cup
                   {[p |-> p, pc |-> "resolved", task_id |-> task_id,
                     delay |-> delay.seconds, reminder_id |-> 0]}
          /\ UNCHANGED last
    /\ UNCHANGED <<stacks, app_state, tasks, reminders, workers>>

\* line 264: BEGIN EXCLUSIVE waits until no other connection holds a lock
remind_me_begin(p) ==
    \E c \in calls :
       /\ c.p = p /\ c.pc = "resolved"
       /\ TransactionBehavior = "Exclusive" => ~WriteLocked
       /\ calls' = (calls \ {c}) \cup {[c EXCEPT !.pc = "locked"]}
       /\ UNCHANGED <<stacks, app_state, tasks, reminders, workers, last>>

\* lines 265-266: the INSERT, inside the transaction; task_id references tasks
remind_me_insert(p) ==
    \E c \in calls :
       /\ c.p = p /\ c.pc = "locked"
       /\ ~\E d \in calls \ {c} : HasWritten(d)
       /\ IF \E t \in tasks : t.id = c.task_id
          THEN /\ calls' = (calls \ {c}) \cup
                     {[c EXCEPT !.pc = "inserted", !.reminder_id = NewUuid]}
               /\ UNCHANGED last
          ELSE /\ calls' = calls \ {c}
               /\ last' = Outcome("remind_me", "Sqlite", <<>>)
       /\ UNCHANGED <<stacks, app_state, tasks, reminders, workers>>

\* lines 269-276: the spawn, before the commit
remind_me_spawn(p) ==
    \E c \in calls :
       /\ c.p = p /\ c.pc = "inserted"
       /\ \/ /\ workers' = workers \cup {SpawnedWorker(c.reminder_id)}
             /\ calls' = (calls \ {c}) \cup {[c EXCEPT !.pc = "spawned"]}
             /\ UNCHANGED <<reminders, last>>
          \/ /\ reminders' = Rollback(reminders, PendingRow(c))
             /\ calls' = calls \ {c}
             /\ last' = Outcome("remind_me", "Environment", <<"spawn">>)
             /\ UNCHANGED workers
       /\ UNCHANGED <<stacks, app_state, tasks>>

\* lines 277-279
remind_me_commit(p) ==
    \E c \in calls :
       /\ c.p = p /\ c.pc = "spawned"
       /\ reminders' = Commit(reminders, PendingRow(c))
       /\ calls' = calls \ {c}
       /\ last' = Outcome("remind_me", "Ok", <<>>)
       /\ UNCHANGED <<stacks, app_state, tasks, workers>>

\* ---- the calls that read, then write, among other processes --------------
\* foreign keys not enforced: SQLite's default for a new connection
ForeignKeysOff == FALSE

\* conn.execute("PRAGMA foreign_keys = ON") on every connection app_main opens:
\* tasks.stack_id and app_state.stack_id must name a row of stacks
ForeignKeys == TRUE

\* a statement that leaves a stack_id without its stack fails
FkViolated(ss, cur, ts) ==
    ForeignKeys /\ \E sid \in {cur} \cup {t.stack_id : t \in ts} :
                      ~\E r \in ss : r.id = sid

\* the calls that have read and not yet written
Reading(c) ==
    c.pc \in {"resolved", "swap_read", "insert_read", "drop_validated",
              "switch_resolved"}

\* swap_tasks, lines 184-201: the count, the two ids and the two task_order,
\* each read by a statement of its own, outside the transaction
swap_tasks_read(p, idx1, idx2) ==
    LET cur == get_current_stack_id
        task_count == Cardinality(StackTasks(tasks, cur))
        min == IF idx1 <= idx2 THEN idx1 ELSE idx2
        max == IF idx1 <= idx2 THEN idx2 ELSE idx1 IN
    /\ ~\E c \in calls : c.p = p
    /\ IF idx1 >= task_count \/ idx2 >= task_count
       THEN /\ last' = IF idx1 >= task_count /\ idx2 >= task_count
                       THEN Outcome("swap_tasks", "NoSuchTasks", <<idx1, idx2>>)
                       ELSE Outcome("swap_tasks", "NoSuchTask", <<max>>)
            /\ UNCHANGED calls
       ELSE /\ \E min_id \in task_index_to_task_id(tasks, cur, min),
                  max_id \in task_index_to_task_id(tasks, cur, max) :
                  calls' = calls \cup
                     {[p |-> p, pc |-> "swap_read",
                       min_id |-> min_id, max_id |-> max_id,
                       min_order |-> OrderOf(tasks, cur, min_id),
                       max_order |-> OrderOf(tasks, cur, max_id)]}
            /\ UNCHANGED last
    /\ UNCHANGED <<stacks, app_state, tasks, reminders, workers>>

\* swap_tasks, lines 202-207: the two UPDATEs in one transaction, with the
\* ids and the task_order read before it
swap_tasks_write(p) ==
    \E c \in calls :
       /\ c.p = p /\ c.pc = "swap_read"
       /\ tasks' = SetOrder(SetOrder(tasks, c.min_id, c.max_order),
                            c.max_id, c.min_order)
       /\ calls' = calls \ {c}
       /\ last' = Outcome("swap_tasks", "Ok", <<>>)
       /\ UNCHANGED <<stacks, app_state, reminders, workers>>

\* insert_after, lines 82-96: the current stack, the count and the key of
\* the row at the rank, read outside the transaction
insert_after_read(p, idx, x) ==
    LET cur == get_current_stack_id
        num_tasks == Cardinality(StackTasks(tasks, cur)) IN
    /\ ~\E c \in calls : c.p = p
    /\ IF idx >= num_tasks
       THEN /\ last' = Outcome("insert_after", "NoSuchTask", <<idx>>)
            /\ UNCHANGED calls
       ELSE /\ calls' = calls \cup
                  {[p |-> p, pc |-> "insert_read", task |-> x, stack_id |-> cur,
                    branch |-> IF idx = 0 THEN "push"
                               ELSE IF idx = num_tasks - 1 THEN "pushback"
                               ELSE "shift",
                    task_order |-> IF 0 < idx /\ idx < num_tasks - 1
                                   THEN InsertOrder(tasks, idx) ELSE 0]}
            /\ UNCHANGED last
    /\ UNCHANGED <<stacks, app_state, tasks, reminders, workers>>

\* insert_after, lines 87, 89 and 97-101: push_task and pushback_task read the
\* current stack again; the shift and the INSERT are one transaction that
\* uses the stack and the key read before it
insert_after_write(p) ==
    \E c \in calls :
       /\ c.p = p /\ c.pc = "insert_read"
       /\ LET shifted == ShiftUp(tasks, c.stack_id, c.task_order) \cup
                            {[id |-> NewRowId(tasks), task |-> c.task,
                              task_order |-> c.task_order, stack_id |-> c.stack_id]}
              ts == IF c.branch = "push"
                       THEN PushTask(tasks, get_current_stack_id, c.task)
                    ELSE IF c.branch = "pushback"
                       THEN PushbackTask(tasks, get_current_stack_id, c.task)
                    ELSE shifted IN
          IF FkViolated(stacks, app_state, ts)
          THEN /\ last' = Outcome("insert_after", "Sqlite", <<>>)
               /\ UNCHANGED tasks
          ELSE /\ last' = Outcome("insert_after", "Ok", <<>>)
               /\ tasks' = ts
       /\ calls' = calls \ {c}
       /\ UNCHANGED <<stacks, app_state, reminders, workers>>

\* drop_stack, lines 143-149: the current stack, the id of the name and the
\* two refusals, before the transaction
drop_stack_validate(p, name) ==
    LET current_stack_id == get_current_stack_id IN
    /\ ~\E c \in calls : c.p = p
    /\ IF stack_name_to_id(stacks, name) = {}
       THEN /\ last' = Outcome("drop_stack", "NoSuchStack", <<name>>)
            /\ UNCHANGED calls
       ELSE \E stack_id \in stack_name_to_id(stacks, name) :
               IF DropRefusal(stack_id, current_stack_id) # "Ok"
               THEN /\ last' = Outcome("drop_stack",
                                       DropRefusal(stack_id, current_stack_id), <<>>)
                    /\ UNCHANGED calls
               ELSE /\ calls' = calls \cup
                          {[p |-> p, pc |-> "drop_validated", stack_id |-> stack_id]}
                    /\ UNCHANGED last
    /\ UNCHANGED <<stacks, app_state, tasks, reminders, workers>>

\* drop_stack, lines 150-154: the two DELETEs in one transaction; the second
\* fails when app_state names the stack, and the transaction is rolled back
drop_stack_delete(p) ==
    \E c \in calls :
       /\ c.p = p /\ c.pc = "drop_validated"
       /\ LET d == DropStack(stacks, tasks, c.stack_id) IN
          IF FkViolated(d.stacks, app_state, d.tasks)
          THEN /\ last' = Outcome("drop_stack", "Sqlite", <<>>)
               /\ UNCHANGED <<stacks, tasks, reminders>>
          ELSE /\ stacks' = d.stacks
               /\ tasks' = d.tasks
               /\ reminders' = Cascade(reminders, tasks')
               /\ last' = Outcome("drop_stack", "Ok", <<>>)
       /\ calls' = calls \ {c}
       /\ UNCHANGED <<app_state, workers>>

\* switch_to_stack, line 159: the id of the name
switch_to_stack_resolve(p, name) ==
    /\ ~\E c \in calls : c.p = p
    /\ IF stack_name_to_id(stacks, name) = {}
       THEN /\ last' = Outcome("switch_to_stack", "NoSuchStack", <<name>>)
            /\ UNCHANGED calls
       ELSE /\ \E stack_id \in stack_name_to_id(stacks, name) :
                  calls' = calls \cup
                     {[p |-> p, pc |-> "switch_resolved", stack_id |-> stack_id]}
            /\ UNCHANGED last
    /\ UNCHANGED <<stacks, app_state, tasks, reminders, workers>>

\* switch_to_stack, lines 160-161: UPDATE app_state SET stack_id = ?
switch_to_stack_update(p) ==
    \E c \in calls :
       /\ c.p = p /\ c.pc = "switch_resolved"
       /\ IF FkViolated(stacks, c.stack_id, tasks)
          THEN /\ last' = Outcome("switch_to_stack", "Sqlite", <<>>)
               /\ UNCHANGED app_state
          ELSE /\ last' = Outcome("switch_to_stack", "Ok", <<>>)
               /\ app_state' = c.stack_id
       /\ calls' = calls \ {c}
       /\ UNCHANGED <<stacks, tasks, reminders, workers>>

\* ---- specifications -------------------------------------------------------
\* the tasks table after the step stays within n ids and orders -k .. k
TasksFit(n, k) ==
    \A t \in tasks' : t.id <= n /\ -k <= t.task_order /\ t.task_order <= k

DelaySpecs == {<<"5", "s">>, <<"x">>}

\* every operation that writes the store, reminders aside
Next ==
    \/ \E x \in OneText : push_task(x) /\ TasksFit(MaxTasks, MaxOrder)
    \/ \E x \in OneText : pushback_task(x) /\ TasksFit(MaxTasks, MaxOrder)
    \/ pop_task
    \/ clear_tasks
    \/ clear_all_tasks
    \/ \E idx \in 0 .. MaxTasks - 1, x \in OneText :
          insert_after(idx, x) /\ TasksFit(MaxTasks, MaxOrder)
    \/ \E name \in StackNames : pop_to(name)
    \/ \E name \in StackNames : new_stack(name)
    \/ \E name \in StackNames : switch_to_stack(name)
    \/ \E name \in StackNames : drop_stack(name)
    \/ \E idx1, idx2 \in 0 .. MaxTasks - 1 : swap_tasks(idx1, idx2)
    \/ \E idx \in 0 .. MaxTasks - 1 : kill_task(idx)

Spec == Init /\ [][Next]_vars

\* only insertions, on any stack, and the listing
NextSeq ==
    \/ \E x \in Texts : push_task(x) /\ TasksFit(MaxSeqTasks, MaxSeqOrder)
    \/ \E x \in Texts : pushback_task(x) /\ TasksFit(MaxSeqTasks, MaxSeqOrder)
    \/ \E idx \in 0 .. MaxSeqTasks - 1, x \in Texts :
          insert_after(idx, x) /\ TasksFit(MaxSeqTasks, MaxSeqOrder)
    \/ \E name \in StackNames : new_stack(name)
    \/ \E name \in StackNames : switch_to_stack(name)

SpecSeq == Init /\ [][NextSeq]_vars

\* push and pop only, on any stack
NextLIFO ==
    \/ \E x \in Texts : push_task(x) /\ TasksFit(MaxSeqTasks, MaxSeqOrder)
    \/ pop_task
    \/ \E name \in StackNames : new_stack(name)
    \/ \E name \in StackNames : switch_to_stack(name)

SpecLIFO == Init /\ [][NextLIFO]_vars

\* pushback, push and pop; a pushed task is told from one put at the bottom
\* by its text
NextBottom ==
    \/ \E x \in Texts : pushback_task(x) /\ TasksFit(MaxTasks, MaxOrder)
    \/ \E x \in PushedText : push_task(x) /\ TasksFit(MaxTasks, MaxOrder)
    \/ pop_task
    \/ \E name \in StackNames : new_stack(name)
    \/ \E name \in StackNames : switch_to_stack(name)

SpecBottom == Init /\ [][NextBottom]_vars

\* the listings, over stacks filled by push and pushback
NextList ==
    \/ \E x \in Texts : push_task(x) /\ TasksFit(MaxTasks, MaxOrder)
    \/ \E x \in Texts : pushback_task(x) /\ TasksFit(MaxTasks, MaxOrder)
    \/ pop_task
    \/ \E name \in StackNames : new_stack(name)
    \/ \E name \in StackNames : switch_to_stack(name)
    \/ list_tasks
    \/ list_stacks

SpecList == Init /\ [][NextList]_vars

\* the stacks, the operations that delete tasks, and the reminders
NextRemind ==
    \/ \E x \in OneText : push_task(x) /\ TasksFit(MaxRemTasks, MaxRemOrder)
    \/ \E x \in OneText : pushback_task(x) /\ TasksFit(MaxRemTasks, MaxRemOrder)
    \/ pop_task
    \/ clear_tasks
    \/ clear_all_tasks
    \/ \E idx \in 0 .. MaxRemTasks - 1 : kill_task(idx)
    \/ \E name \in StackNames : new_stack(name)
    \/ \E name \in StackNames : switch_to_stack(name)
    \/ \E name \in StackNames : drop_stack(name)
    \/ \E idx \in 0 .. MaxRemTasks - 1, d \in DelaySpecs :
          remind_me(idx, d) /\ Cardinality(workers') <= MaxReminders
    \/ \E w \in workers : trigger_reminder_lookup(w)
    \/ \E w \in workers : trigger_reminder_fire(w)

SpecRemind == Init /\ [][NextRemind]_vars

\* the ids remind_me gives to reminders
ReminderIds == 1 .. MaxReminders

\* a worker is a process of its own: once started it runs to its end, the
\* sleep included
FairWorkers ==
    \A i \in ReminderIds :
       /\ WF_vars(\E w \in workers : w.id = i /\ trigger_reminder_lookup(w))
       /\ WF_vars(\E w \in workers : w.id = i /\ trigger_reminder_fire(w))

SpecRemindFair == SpecRemind /\ FairWorkers

\* the stacks, with tasks and pending reminders in them
NextDrop ==
    \/ \E x \in OneText : push_task(x) /\ TasksFit(MaxRemTasks, MaxRemOrder)
    \/ \E x \in OneText : pushback_task(x) /\ TasksFit(MaxRemTasks, MaxRemOrder)
    \/ pop_task
    \/ \E name \in StackNames : new_stack(name)
    \/ \E name \in StackNames : switch_to_stack(name)
    \/ \E name \in StackNames : drop_stack(name)
    \/ \E idx \in 0 .. MaxRemTasks - 1, d \in DelaySpecs :
          remind_me(idx, d) /\ Cardinality(workers') <= MaxReminders

SpecDrop == Init /\ [][NextDrop]_vars

\* the operations that order the tasks of a stack
NextSwap ==
    \/ \E x \in OneText : push_task(x) /\ TasksFit(MaxSwapTasks, MaxRemOrder)
    \/ \E x \in OneText : pushback_task(x) /\ TasksFit(MaxSwapTasks, MaxRemOrder)
    \/ \E idx1, idx2 \in 0 .. MaxSwapTasks : swap_tasks(idx1, idx2)
    \/ \E idx \in 0 .. MaxSwapTasks : kill_task(idx)
    \/ \E name \in StackNames : new_stack(name)
    \/ \E name \in StackNames : switch_to_stack(name)

SpecSwap == Init /\ [][NextSwap]_vars

\* the operations that order the tasks, with swap_tasks of main.rs
NextMain ==
    \/ \E x \in OneText : push_task(x) /\ TasksFit(MaxSwapTasks, MaxRemOrder)
    \/ \E x \in OneText : pushback_task(x) /\ TasksFit(MaxSwapTasks, MaxRemOrder)
    \/ pop_task
    \/ \E idx1, idx2 \in 0 .. MaxSwapTasks : swap_tasks_main(idx1, idx2)
    \/ \E name \in StackNames : new_stack(name)
    \/ \E name \in StackNames : switch_to_stack(name)

SpecMain == Init /\ [][NextMain]_vars

\* main.rs with its insert_after: pushes, insertions and swaps over two stacks
NextMainInsert ==
    \/ \E x \in OneText : push_task(x) /\ TasksFit(MaxMainTasks, MaxMainTasks)
    \/ \E idx \in 1 .. MaxMainTasks - 2, x \in OneText :
          insert_after(idx, x) /\ TasksFit(MaxMainTasks, MaxMainTasks)
    \/ \E idx1, idx2 \in 0 .. MaxMainTasks - 1 : swap_tasks_main(idx1, idx2)
    \/ \E name \in StackNames : new_stack(name)
    \/ \E name \in StackNames : switch_to_stack(name)

SpecMainInsert == Init /\ [][NextMainInsert]_vars

\* pushes and insertions over two stacks; an inserted task is told from a
\* pushed one by its text
NextInsert ==
    \/ \E x \in OneText : push_task(x) /\ TasksFit(MaxMainTasks, MaxMainTasks)
    \/ \E idx \in 0 .. MaxMainTasks - 1, x \in PushedText :
          insert_after(idx, x) /\ TasksFit(MaxMainTasks, MaxMainTasks)
    \/ \E name \in StackNames : new_stack(name)
    \/ \E name \in StackNames : switch_to_stack(name)

SpecInsert == Init /\ [][NextInsert]_vars

\* every operation that works on the current stack, swap_tasks in its two
\* versions, and clear_all_tasks, over two stacks
NextFrame ==
    \/ \E x \in OneText : push_task(x) /\ TasksFit(MaxSwapTasks, MaxOrder)
    \/ \E x \in OneText : pushback_task(x) /\ TasksFit(MaxSwapTasks, MaxOrder)
    \/ \E idx \in 0 .. MaxSwapTasks, x \in OneText :
          insert_after(idx, x) /\ TasksFit(MaxSwapTasks, MaxOrder)
    \/ pop_task
    \/ \E idx \in 0 .. MaxSwapTasks : kill_task(idx)
    \/ \E idx1, idx2 \in 0 .. MaxSwapTasks : swap_tasks(idx1, idx2)
    \/ \E idx1, idx2 \in 0 .. MaxSwapTasks : swap_tasks_main(idx1, idx2)
    \/ clear_tasks
    \/ clear_all_tasks
    \/ \E name \in StackNames : new_stack(name)
    \/ \E name \in StackNames : switch_to_stack(name)

SpecFrame == Init /\ [][NextFrame]_vars

\* a connection that finds the file locked waits (busy handler); it reads
\* when no lock keeps readers out and writes when none keeps writers out
CanRead == ~ReadLocked
CanWrite == ~WriteLocked

\* remind_me of several processes, the workers and other writers, interleaved
NextLock ==
    \/ \E x \in OneText :
          CanWrite /\ push_task(x) /\ TasksFit(MaxLockTasks, MaxRemOrder)
    \/ \E idx \in 0 .. MaxLockTasks - 1 : CanWrite /\ kill_task(idx)
    \/ \E p \in Procs, idx \in 0 .. MaxLockTasks - 1, d \in DelaySpecs :
          remind_me_resolve(p, idx, d)
    \/ \E p \in Procs : remind_me_begin(p)
    \/ \E p \in Procs : remind_me_insert(p)
    \/ \E p \in Procs :
          remind_me_spawn(p) /\ Cardinality(workers') <= MaxLockReminders
    \/ \E p \in Procs : remind_me_commit(p)
    \/ \E w \in workers : CanRead /\ trigger_reminder_lookup(w)
    \/ \E w \in workers : CanWrite /\ trigger_reminder_fire(w)

SpecLock == Init /\ [][NextLock]_vars

\* the workers and the other processes, up to the sleep of one reminder
NextSleep ==
    \/ \E x \in OneText :
          CanWrite /\ push_task(x) /\ TasksFit(MaxLockTasks, MaxRemOrder)
    \/ \E idx \in 0 .. MaxLockTasks - 1 : CanWrite /\ kill_task(idx)
    \/ \E p \in Procs, idx \in 0 .. MaxLockTasks - 1, d \in DelaySpecs :
          remind_me_resolve(p, idx, d)
    \/ \E p \in Procs : remind_me_begin(p)
    \/ \E p \in Procs : remind_me_insert(p)
    \/ \E p \in Procs :
          remind_me_spawn(p) /\ Cardinality(workers') <= MaxReminders
    \/ \E p \in Procs : remind_me_commit(p)
    \/ \E w \in workers : CanRead /\ trigger_reminder_lookup(w)
    \/ \E w \in workers : CanWrite /\ trigger_reminder_fire(w)

SpecSleep == Init /\ [][NextSleep]_vars

\* the tasks of two stacks, by their texts, and kill_task
NextKill ==
    \/ \E x \in Texts : push_task(x) /\ TasksFit(MaxSwapTasks, MaxRemOrder)
    \/ \E x \in Texts : pushback_task(x) /\ TasksFit(MaxSwapTasks, MaxRemOrder)
    \/ \E idx \in 0 .. MaxSwapTasks : kill_task(idx)
    \/ \E name \in StackNames : new_stack(name)
    \/ \E name \in StackNames : switch_to_stack(name)

SpecKill == Init /\ [][NextKill]_vars

\* the calls that read and then write, each among the calls of other
\* processes
NextProcs ==
    \/ \E x \in OneText : push_task(x) /\ TasksFit(MaxProcTasks, MaxProcTasks)
    \/ \E name \in StackNames : new_stack(name)
    \/ \E name \in StackNames : switch_to_stack(name)
    \/ \E p \in Procs, idx1, idx2 \in 0 .. MaxProcTasks - 1 :
          swap_tasks_read(p, idx1, idx2) /\ Cardinality(calls') <= MaxCalls
    \/ \E p \in Procs : swap_tasks_write(p)
    \/ \E p \in Procs, idx \in 0 .. MaxProcTasks - 1, x \in OneText :
          insert_after_read(p, idx, x) /\ Cardinality(calls') <= MaxCalls
    \/ \E p \in Procs : insert_after_write(p) /\ TasksFit(MaxProcTasks, MaxProcTasks)
    \/ \E p \in Procs, name \in StackNames :
          drop_stack_validate(p, name) /\ Cardinality(calls') <= MaxCalls
    \/ \E p \in Procs : drop_stack_delete(p)

SpecProcs == Init /\ [][NextProcs]_vars

\* the stacks and the pointer to the current one, under calls of several
\* processes that resolve a name and then write
NextStacks ==
    \/ \E x \in OneText : push_task(x) /\ TasksFit(MaxLockTasks, MaxRemOrder)
    \/ \E name \in StackNames : new_stack(name)
    \/ \E name \in StackNames : switch_to_stack(name)
    \/ \E name \in StackNames : drop_stack(name)
    \/ \E p \in Procs, name \in StackNames : drop_stack_validate(p, name)
    \/ \E p \in Procs : drop_stack_delete(p)
    \/ \E p \in Procs, name \in StackNames : switch_to_stack_resolve(p, name)
    \/ \E p \in Procs : switch_to_stack_update(p)

SpecStacks == Init /\ [][NextStacks]_vars

\* ---- properties -----------------------------------------------------------
\* the task a successful insertion has just added: the row with the largest id
Newest(ts) == CHOOSE t \in ts : \A u \in ts : u.id <= t.id

\* C1: after any sequence of push, pushback and insert_after from the empty
\* store, no two tasks of one stack have the same task_order.
C1_NoCollision ==
    \A t, u \in tasks :
        (t.stack_id = u.stack_id /\ t.task_order = u.task_order) => t = u

\* insert_after has shifted tasks: the new task lies strictly inside its stack
C1_Witness ==
    /\ last.op = "insert_after" /\ last.res = "Ok"
    /\ \E u, v \in StackTasks(tasks, Newest(tasks).stack_id) :
          u.task_order < Newest(tasks).task_order
          /\ Newest(tasks).task_order < v.task_order

\* C2: in every state the store reaches by any of its operations, the tasks
\* of one stack have pairwise distinct task_order values; pop_to leaves no
\* duplicate in the destination.  It holds of the operations of commands.rs
\* (Spec) and fails with swap_tasks of main.rs (SpecMainInsert).
C2_DistinctOrders ==
    \A sid \in {t.stack_id : t \in tasks} :
        Cardinality({t.task_order : t \in StackTasks(tasks, sid)})
            = Cardinality(StackTasks(tasks, sid))

\* C3: with only push and pop applied, pop returns the most recently pushed
\* task of the current stack that is still there and removes it, and returns
\* nothing on an empty stack: after push(a), push(b) the pops give b, a, none.
\* Rows get increasing ids, so the most recent task is the one with the
\* largest id.
C3_LIFO ==
    [][last'.op = "pop_task" =>
        LET S == StackTasks(tasks, app_state) IN
        IF S = {}
        THEN last'.val = <<>> /\ tasks' = tasks
        ELSE last'.val = <<Newest(S).task>> /\ tasks' = tasks \ {Newest(S)}]_vars

\* pop has returned b from a stack where an a lies below
C3_Witness ==
    /\ last.op = "pop_task" /\ last.val = <<"b">>
    /\ \E t \in StackTasks(tasks, app_state) : t.task = "a"

\* C4: a task added by pushback is popped only after every task that was in
\* its stack when it was added: after pushback(a), pushback(b) on an empty
\* stack pop returns a and leaves exactly b.  In SpecBottom the tasks put at
\* the bottom are those whose text is in Texts, and an older task has a
\* smaller id.
C4_Bottom ==
    [][(last'.op = "pop_task" /\ tasks' # tasks) =>
        \E t \in StackTasks(tasks, app_state) :
            /\ tasks' = tasks \ {t}
            /\ last'.val = <<t.task>>
            /\ t.task \in Texts =>
                  \A u \in StackTasks(tasks, app_state) : u.id >= t.id]_vars

\* pop has returned a and left exactly one task, b, put at the bottom after a
C4_Witness ==
    /\ last.op = "pop_task" /\ last.val = <<"a">>
    /\ \E t \in tasks : StackTasks(tasks, app_state) = {t} /\ t.task = "b"

\* C5: swap is its own inverse: from every state, for all positions i and j
\* valid in the current stack, swap(i, j) applied twice gives back the tasks
\* table, so the order of the stack and every task_order.  Stated of
\* swap_tasks of commands.rs and of swap_tasks of main.rs; where the ranking
\* leaves the choice between rows of equal task_order open, of every choice.
C5_SwapTwice ==
    LET cur == app_state
        n == Cardinality(StackTasks(tasks, cur)) IN
    \A i, j \in 0 .. MaxMainTasks - 1 :
        (i < n /\ j < n) =>
            /\ \A once \in SwapTasks(tasks, cur, i, j) :
                  SwapTasks(once, cur, i, j) = {tasks}
            /\ \A once \in SwapTasksMain(tasks, i, j) :
                  SwapTasksMain(once, i, j) = {tasks}

\* C6: on a current stack of n tasks, insert_after(0, x) lists the stack as
\* pushback(x) does and insert_after(n - 1, x) lists it as push(x) does.
\* Stated here for n >= 2 only, where the two positions differ.
C6_InsertAtEnds ==
    LET cur == app_state
        n == Cardinality(StackTasks(tasks, cur)) IN
    n >= 2 =>
        \A x \in Texts :
            /\ ListTasks(InsertAfter(tasks, cur, 0, x), cur)
                  = ListTasks(PushbackTask(tasks, cur, x), cur)
            /\ ListTasks(InsertAfter(tasks, cur, n - 1, x), cur)
                  = ListTasks(PushTask(tasks, cur, x), cur)

\* C7: list returns the texts of exactly the tasks of the current stack, by
\* ascending task_order, and no task of another stack: with a on default and
\* b on work, list on default is <<a>>.
C7_ListCurrentStack ==
    last.op = "list_tasks" =>
        LET S == StackTasks(tasks, app_state) IN
        /\ Len(last.val) = Cardinality(S)
        /\ \E f \in [1 .. Len(last.val) -> S] :
              /\ \A t \in S : \E i \in DOMAIN f : f[i] = t
              /\ \A i \in DOMAIN f : last.val[i] = f[i].task
              /\ \A i, j \in DOMAIN f : i < j => f[i].task_order < f[j].task_order

\* default holds only a, work holds only b, and list on default gave <<a>>
C7_Witness ==
    /\ last.op = "list_tasks" /\ last.val = <<"a">>
    /\ app_state = DEFAULT_STACK_ID
    /\ \A t \in tasks : t.task = (IF t.stack_id = DEFAULT_STACK_ID THEN "a" ELSE "b")
    /\ \E t \in tasks : t.stack_id # DEFAULT_STACK_ID

\* C8: drop_stack of a stack that is neither the default nor the current one
\* succeeds; afterwards no task has its id, its row is gone, list_stacks does
\* not give its name, and the other stacks, their tasks and the current
\* stack are as before.
C8_DropStack ==
    [][\A name \in StackNames : \A s \in stacks :
          (last'.op = "drop_stack" /\ s.name = name
             /\ s.id # DEFAULT_STACK_ID /\ s.id # app_state
             /\ drop_stack(name)) =>
                /\ last'.res = "Ok"
                /\ StackTasks(tasks', s.id) = {}
                /\ ~\E r \in stacks' : r.id = s.id
                /\ name \notin ListStacks(stacks')
                /\ stacks' = stacks \ {s}
                /\ tasks' = tasks \ StackTasks(tasks, s.id)
                /\ app_state' = app_state]_vars

\* a stack was dropped with the task in it that had a reminder, while the
\* stack that stays holds a task
C8_Witness ==
    /\ last.op = "drop_stack" /\ last.res = "Ok"
    /\ tasks # {}
    /\ workers # {} /\ reminders = {}

\* C9: drop_stack of the default stack fails with CantDeleteDefaultStack, and
\* of a current stack other than the default with CantDeleteCurrentStack (the
\* test for the default comes first); neither changes stacks, tasks,
\* reminders or app_state, and the default stack exists in every state.
C9_DropRefused ==
    /\ [](\E s \in stacks : s.id = DEFAULT_STACK_ID)
    /\ [][\A name \in StackNames : \A s \in stacks :
             (last'.op = "drop_stack" /\ s.name = name /\ drop_stack(name)) =>
                /\ s.id = DEFAULT_STACK_ID =>
                      last'.res = "CantDeleteDefaultStack" /\ UNCHANGED db
                /\ (s.id # DEFAULT_STACK_ID /\ s.id = app_state) =>
                      last'.res = "CantDeleteCurrentStack" /\ UNCHANGED db]_vars

\* the drop of the current stack was refused while a reminder is pending
C9_Witness ==
    /\ last.op = "drop_stack" /\ last.res = "CantDeleteCurrentStack"
    /\ reminders # {}

\* C10: every reminder row references an existing task: a step that deletes
\* a task removes the reminders of that task with it.
C10_ReminderHasTask ==
    \A r \in reminders : \E t \in tasks : t.id = r.task_id

\* kill_task deleted a task whose reminder had a worker still waiting: the
\* reminder row went with the task
C10_Witness ==
    /\ last.op = "kill_task" /\ last.res = "Ok"
    /\ reminders = {}
    /\ \E w \in workers : w.pc = "sleep"
\* C11: firing a reminder whose task was deleted, before the worker's first
\* lookup or while it sleeps, is a safe no-op: trigger_reminder ends without
\* an error, shows no notification and changes no table.  The reminder row of
\* a worker that has not fired goes only with its task, so the task of w was
\* deleted exactly when no reminder row has the id of w.
C11_SafeNoOp ==
    [][\A w \in workers :
          (/\ ~\E r \in reminders : r.id = w.id
           /\ trigger_reminder_lookup(w) \/ trigger_reminder_fire(w)) =>
              /\ UNCHANGED db
              /\ \E v \in workers' :
                    v.id = w.id /\ v.pc = "exit" /\ v.res = "Ok" /\ v.shown = <<>>]_vars
\* C12: each successful remind_me(index, spec) inserts exactly one reminder
\* row, whose task_id is the id of the task at rank index of the current
\* stack, and spawns exactly one worker, which carries the id of that row;
\* when a task is killed afterwards, no reminder row of it is left.
C12_OneReminder ==
    /\ [][\A idx \in 0 .. MaxRemTasks - 1 : \A d \in DelaySpecs :
             (last'.op = "remind_me" /\ last'.res = "Ok" /\ remind_me(idx, d)) =>
                \E t \in StackTasks(tasks, app_state) :
                   /\ Cardinality({u \in StackTasks(tasks, app_state) :
                                      u.task_order < t.task_order}) = idx
                   /\ \E r \in reminders' \ reminders :
                         /\ reminders' = reminders \cup {r}
                         /\ r.task_id = t.id
                         /\ \E w \in workers' \ workers :
                               /\ workers' = workers \cup {w}
                               /\ w.id = r.id /\ w.pc = "lookup"]_vars
    /\ [][\A idx \in 0 .. MaxRemTasks - 1 :
             (last'.op = "kill_task" /\ last'.res = "Ok" /\ kill_task(idx)) =>
                \A t \in tasks \ tasks' :
                   ~\E r \in reminders' : r.task_id = t.id]_vars

\* a reminder was scheduled for the upper of two tasks of the current stack
C12_Witness ==
    /\ last.op = "remind_me" /\ last.res = "Ok"
    /\ Cardinality(reminders) = 1
    /\ \E r \in reminders : \E t, u \in StackTasks(tasks, app_state) :
          /\ r.task_id = t.id /\ u.task_order < t.task_order
          /\ \E w \in workers : w.id = r.id /\ w.pc = "lookup"
\* C13: when the spawn of the worker fails, remind_me returns an Environment
\* error and the tables are as they were: the failing step, like every step
\* of the call before its commit, changes no table, and in every state each
\* reminder row has a worker that was spawned for it.
C13_NoOrphan ==
    /\ [](\A r \in reminders : \E w \in workers : w.id = r.id)
    /\ [][\A p \in Procs :
             (remind_me_begin(p) \/ remind_me_insert(p) \/ remind_me_spawn(p)) =>
                /\ UNCHANGED db
                /\ (\E c \in calls : c.p = p /\ c.pc = "inserted" /\ workers' = workers)
                      => last' = Outcome("remind_me", "Environment", <<"spawn">>)]_vars

\* a spawn has failed after an earlier call had scheduled a reminder: the row
\* and the worker of that call are all there is
C13_Witness ==
    /\ last = Outcome("remind_me", "Environment", <<"spawn">>)
    /\ Cardinality(reminders) = 1 /\ Cardinality(workers) = 1
    /\ \A r \in reminders : \E w \in workers : w.id = r.id
\* C14: remind_me holds an exclusive lock from before its INSERT until after
\* its commit: while a call is between Transaction::new and the end of its
\* transaction, every step that is taken is a step of that call (no other
\* remind_me, no other writer, no reader such as the lookup of the worker
\* just spawned), and at most one call is inside its transaction, so the
\* transactions of concurrent calls come one after the other.
C14_Exclusive ==
    /\ [](Cardinality({c \in calls : c.pc \in {"locked", "inserted", "spawned"}}) <= 1)
    /\ [][\A c \in calls :
             c.pc \in {"locked", "inserted", "spawned"} => c \notin calls']_vars

\* one call has spawned its worker and not yet committed; the worker has not
\* read its row, and the call of another process waits for the lock
C14_Witness ==
    \E c, d \in calls :
       /\ c.pc = "spawned" /\ d.pc = "resolved"
       /\ \E w \in workers : w.id = c.reminder_id /\ w.pc = "lookup"
       /\ ~\E r \in reminders : r.id = c.reminder_id
\* C15: a worker in its sleep holds no connection and no lock: it has closed
\* its connection, and unless a remind_me of some process is inside its
\* transaction, every operation of another process on the store can be
\* taken and completes in that state.
C15_SleepHoldsNothing ==
    \A w \in workers :
       w.pc = "sleep" =>
          /\ ~w.conn
          /\ (~\E c \in calls : c.pc \in {"locked", "inserted", "spawned"}) =>
                /\ \A x \in OneText : ENABLED (CanWrite /\ push_task(x))
                /\ \A idx \in 0 .. MaxLockTasks - 1 : ENABLED (CanWrite /\ kill_task(idx))
                /\ \A p \in Procs :
                      (\E c \in calls : c.p = p) \/
                         \A d \in DelaySpecs : ENABLED remind_me_resolve(p, 0, d)
                /\ \A p \in Procs :
                      (\E c \in calls : c.p = p /\ c.pc = "resolved") =>
                         ENABLED remind_me_begin(p)
                /\ \A v \in workers :
                      /\ v.pc = "lookup" => ENABLED (CanRead /\ trigger_reminder_lookup(v))
                      /\ v.pc = "sleep" => ENABLED (CanWrite /\ trigger_reminder_fire(v))

\* a worker sleeps with its connection closed, a task is on the stack and no
\* remind_me is inside its transaction: another process has resolved its index
C15_Witness ==
    /\ \E w \in workers : w.pc = "sleep" /\ ~w.conn
    /\ tasks # {}
    /\ \E c \in calls : c.pc = "resolved"
\* C16: pop_task on a non-empty current stack removes exactly the task with
\* the largest task_order of the current stack and returns its text, and
\* leaves every other task as it is; on an empty current stack it returns
\* None, not an error, and changes nothing, also when other stacks hold
\* tasks.
C16_Pop ==
    [][(last'.op = "pop_task" /\ pop_task) =>
          LET S == StackTasks(tasks, app_state) IN
          /\ last'.res = "Ok"
          /\ UNCHANGED <<stacks, app_state>>
          /\ IF S = {}
             THEN last'.val = <<>> /\ UNCHANGED tasks
             ELSE \E t \in S :
                     /\ \A u \in S : u.task_order <= t.task_order
                     /\ tasks' = tasks \ {t}
                     /\ last'.val = <<t.task>>]_vars

\* pop_task returned None on an empty current stack while the other stack
\* holds a task above and a task below
C16_Witness ==
    /\ last.op = "pop_task" /\ last.val = <<>>
    /\ StackTasks(tasks, app_state) = {}
    /\ Cardinality(tasks) >= 2
\* C17: swap_tasks(i, j) tests both positions against the number of tasks of
\* the current stack: with exactly one out of range it fails with NoSuchTask
\* of that position, with both out of range it fails with NoSuchTasks(i, j),
\* and in both cases no task_order changes.  Stated of swap_tasks of
\* commands.rs and of swap_tasks of main.rs.
C17_SwapValidates ==
    [][\A i, j \in 0 .. MaxSwapTasks :
          (last'.op = "swap_tasks" /\ (swap_tasks(i, j) \/ swap_tasks_main(i, j))) =>
             LET n == Cardinality(StackTasks(tasks, app_state)) IN
             /\ ((i >= n) # (j >= n)) =>
                   /\ last'.res = "NoSuchTask"
                   /\ last'.val = <<IF i >= n THEN i ELSE j>>
                   /\ UNCHANGED tasks
             /\ (i >= n /\ j >= n) =>
                   /\ last'.res = "NoSuchTasks"
                   /\ last'.val = <<i, j>>
                   /\ UNCHANGED tasks]_vars
\* C18: a successful swap_tasks(i, j) exchanges the task_order of the two
\* tasks at ranks i and j of the current stack and nothing else: every task
\* keeps its id, text and stack_id, every other task keeps its task_order,
\* and every reminder keeps its task_id.  Stated of swap_tasks of
\* commands.rs and of swap_tasks of main.rs.
C18_SwapFrame ==
    [][\A i, j \in 0 .. MaxSwapTasks :
          (/\ last'.op = "swap_tasks" /\ last'.res = "Ok"
           /\ swap_tasks(i, j) \/ swap_tasks_main(i, j)) =>
             LET S == StackTasks(tasks, app_state)
                 At(k) == {t \in S :
                             Cardinality({u \in S : u.task_order < t.task_order}) = k}
             IN  /\ reminders' = reminders
                 /\ \E a \in At(i), b \in At(j) :
                       tasks' = {IF t = a THEN [t EXCEPT !.task_order = b.task_order]
                                 ELSE IF t = b THEN [t EXCEPT !.task_order = a.task_order]
                                 ELSE t : t \in tasks}]_vars

\* C19: kill_task(index) with index >= the number of tasks of the current
\* stack fails with NoSuchTask(index) and changes nothing; otherwise it
\* deletes exactly the task at rank index of the current stack (ranks from 0
\* by ascending task_order), returns the text of that task and leaves every
\* other task as it is.
C19_Kill ==
    [][\A idx \in 0 .. MaxSwapTasks :
          (last'.op = "kill_task" /\ kill_task(idx)) =>
             LET S == StackTasks(tasks, app_state) IN
             IF idx >= Cardinality(S)
             THEN /\ last'.res = "NoSuchTask" /\ last'.val = <<idx>>
                  /\ UNCHANGED db
             ELSE /\ last'.res = "Ok"
                  /\ UNCHANGED <<stacks, app_state>>
                  /\ \E t \in S :
                        /\ Cardinality({u \in S : u.task_order < t.task_order}) = idx
                        /\ tasks' = tasks \ {t}
                        /\ last'.val = <<t.task>>]_vars

\* the middle task b of a stack of three was killed: a task a is left below
\* and one above, and the other stack keeps its task
C19_Witness ==
    /\ last.op = "kill_task" /\ last.res = "Ok" /\ last.val = <<"b">>
    /\ \A t \in tasks : t.task = "a"
    /\ Cardinality(StackTasks(tasks, app_state)) = 2
\* C20: pop_to(dest) fails with NoSuchStack and changes nothing when no
\* stack is named dest; when the current stack is empty it succeeds and
\* changes nothing; otherwise it sets the stack_id of the task with the
\* largest task_order of the current stack to the id of dest and changes
\* nothing else: not that task's id, text or task_order, and no other task.
C20_PopTo ==
    [][\A name \in StackNames :
          (last'.op = "pop_to" /\ pop_to(name)) =>
             LET S == StackTasks(tasks, app_state)
                 dest == stack_name_to_id(stacks, name) IN
             IF dest = {}
             THEN last'.res = "NoSuchStack" /\ UNCHANGED db
             ELSE IF S = {}
             THEN last'.res = "Ok" /\ UNCHANGED db
             ELSE /\ last'.res = "Ok"
                  /\ UNCHANGED <<stacks, app_state, reminders>>
                  /\ \E t \in S : \E d \in dest :
                        /\ \A u \in S : u.task_order <= t.task_order
                        /\ tasks' = (tasks \ {t}) \cup {[t EXCEPT !.stack_id = d]}]_vars

\* C21: insert_after, swap_tasks, drop_stack, remind_me and trigger_reminder
\* are each atomic among the calls of other processes: from the reads of a
\* call (the count, the id at a rank, a task_order, the validation) to its
\* writes no step of another process changes the store.  The writes of a
\* call are one transaction and are applied in one step; the reads are
\* statements before it.
C21_Atomic ==
    [][\A c \in calls :
          (Reading(c) /\ c \in calls') =>
             UNCHANGED <<stacks, app_state, tasks, reminders>>]_vars

\* C22: under fairness every reminder a successful remind_me has created is
\* destroyed in the end, and once: while its task stays, the worker shows
\* that task's text once and deletes the row in the same transaction; when
\* the task is deleted the cascade removes the row and the worker neither
\* deletes nor shows anything.  So a reminder in the table leads to its
\* absence, and a worker that shows a text finds its own row in the table,
\* removes it, and shows the text of the task of that row.
C22_DestroyedOnce ==
    /\ \A i \in ReminderIds :
          (\E r \in reminders : r.id = i) ~> ~(\E r \in reminders : r.id = i)
    /\ [][\A w \in workers, v \in workers' :
             (w.id = v.id /\ w.pc = "sleep" /\ v.pc = "exit" /\ v.res = "Ok") =>
                \E r \in reminders :
                   /\ r.id = w.id
                   /\ reminders' = reminders \ {r}
                   /\ \E t \in tasks : t.id = r.task_id /\ v.shown = <<t.task>>]_vars

\* C23: push_task(x) gives the new task the largest task_order of the tasks
\* of the current stack plus 1, pushback_task(x) the smallest minus 1, and
\* both give 1 when the current stack is empty, whatever the other stacks
\* hold.
C23_PushOrder ==
    [][last'.op \in {"push_task", "pushback_task"} =>
          LET S == StackTasks(tasks, app_state)
              new == Newest(tasks') IN
          /\ tasks' = tasks \cup {new}
          /\ new \notin tasks
          /\ new.task_order =
                IF S = {} THEN 1
                ELSE IF last'.op = "push_task"
                THEN Max({t.task_order : t \in S}) + 1
                ELSE Min({t.task_order : t \in S}) - 1]_vars

\* the row of ts that has the id of t
SameId(ts, t) == CHOOSE u \in ts : u.id = t.id

\* C24: insert_after(idx, x) fails with NoSuchTask(idx) and changes nothing
\* when idx is not below the number of tasks of the current stack; for
\* 0 < idx < count - 1 it adds one task with the text x to the current stack,
\* immediately after the task at rank idx of the current stack (so idx + 1
\* of the old tasks of the stack lie below it), and the old tasks keep their
\* ids, texts, stacks and their order among each other.
C24_InsertAfter ==
    [][\A idx \in 0 .. MaxMainTasks - 1, x \in PushedText :
          (last'.op = "insert_after" /\ insert_after(idx, x)) =>
             LET cur == app_state
                 S == StackTasks(tasks, cur)
                 n == Cardinality(S)
                 new == Newest(tasks') IN
             IF idx >= n
             THEN /\ last'.res = "NoSuchTask" /\ last'.val = <<idx>>
                  /\ UNCHANGED db
             ELSE (0 < idx /\ idx < n - 1) =>
                  /\ last'.res = "Ok"
                  /\ UNCHANGED <<stacks, app_state, reminders>>
                  /\ \A t \in tasks : new.id # t.id
                  /\ new.task = x /\ new.stack_id = cur
                  /\ {t.id : t \in tasks'} = {t.id : t \in tasks} \cup {new.id}
                  /\ \A t \in tasks :
                        /\ SameId(tasks', t).task = t.task
                        /\ SameId(tasks', t).stack_id = t.stack_id
                  /\ \A t, u \in S :
                        (t.task_order < u.task_order) <=>
                           (SameId(tasks', t).task_order
                               < SameId(tasks', u).task_order)
                  /\ \A t \in S : SameId(tasks', t).task_order # new.task_order
                  /\ Cardinality({t \in S : SameId(tasks', t).task_order
                                               < new.task_order}) = idx + 1]_vars

\* C25: the names of the stacks stay pairwise distinct.  new_stack(name)
\* fails with StackAlreadyExists and changes nothing when a stack has that
\* name, and otherwise adds one stack of that name whose id no stack had;
\* switch_to_stack(name) fails with NoSuchStack and leaves the current stack
\* as it was when no stack has that name, and otherwise sets the current
\* stack to the id of the stack of that name and changes nothing else.
C25_StackNames ==
    [][/\ \A s, t \in stacks' : s.name = t.name => s = t
       /\ \A name \in StackNames :
             /\ (last'.op = "new_stack" /\ new_stack(name)) =>
                   IF \E s \in stacks : s.name = name
                   THEN /\ last'.res = "StackAlreadyExists"
                        /\ last'.val = <<name>>
                        /\ UNCHANGED db
                   ELSE /\ last'.res = "Ok"
                        /\ \E s \in stacks' :
                              /\ stacks' = stacks \cup {s}
                              /\ s.name = name
                              /\ \A t \in stacks : t.id # s.id
                        /\ UNCHANGED <<app_state, tasks, reminders>>
             /\ (last'.op = "switch_to_stack" /\ switch_to_stack(name)) =>
                   IF ~\E s \in stacks : s.name = name
                   THEN /\ last'.res = "NoSuchStack"
                        /\ last'.val = <<name>>
                        /\ UNCHANGED db
                   ELSE /\ last'.res = "Ok"
                        /\ \E s \in stacks : s.name = name /\ app_state' = s.id
                        /\ UNCHANGED <<stacks, tasks, reminders>>]_vars

\* a second stack was created and made current, and creating it again was
\* refused
C25_Witness ==
    /\ last.op = "new_stack" /\ last.res = "StackAlreadyExists"
    /\ Cardinality(stacks) = 2
    /\ app_state # DEFAULT_STACK_ID

\* the tasks of the stacks other than cur
OtherTasks(ts, cur) == {t \in ts : t.stack_id # cur}

\* C26: push_task, pushback_task, insert_after, pop_task, kill_task,
\* swap_tasks and clear_tasks change only tasks of the current stack: every
\* task of another stack keeps its id, text, task_order and stack_id.  A
\* position is refused exactly when it is not below the number of tasks of
\* the current stack.  clear_tasks removes the tasks of the current stack
\* and leaves the others in place; clear_all_tasks removes the tasks of every
\* stack.  Stated of swap_tasks of commands.rs and of swap_tasks of main.rs.
C26_CurrentStackOnly ==
    [][LET cur == app_state
           n == Cardinality(StackTasks(tasks, cur))
           Refused == last'.res \in {"NoSuchTask", "NoSuchTasks"} IN
       /\ last'.op \in {"push_task", "pushback_task", "insert_after", "pop_task",
                        "kill_task", "swap_tasks", "clear_tasks"} =>
             /\ OtherTasks(tasks', cur) = OtherTasks(tasks, cur)
             /\ UNCHANGED <<stacks, app_state>>
       /\ \A idx \in 0 .. MaxSwapTasks :
             /\ \A x \in OneText :
                   (last'.op = "insert_after" /\ insert_after(idx, x)) =>
                      (Refused <=> idx >= n)
             /\ (last'.op = "kill_task" /\ kill_task(idx)) =>
                   (Refused <=> idx >= n)
             /\ \A idx2 \in 0 .. MaxSwapTasks :
                   (/\ last'.op = "swap_tasks"
                    /\ swap_tasks(idx, idx2) \/ swap_tasks_main(idx, idx2)) =>
                      (Refused <=> (idx >= n \/ idx2 >= n))
       /\ last'.op = "clear_tasks" => tasks' = OtherTasks(tasks, cur)
       /\ last'.op = "clear_all_tasks" => tasks' = {}]_vars

\* C27: in every reachable state, also when the calls of several processes
\* interleave (a switch_to_stack between the validation of drop_stack and its
\* DELETEs, a drop_stack between the lookup of switch_to_stack and its
\* UPDATE), app_state holds one row and its stack_id is the id of a stack
\* that exists.  The variable app_state is the stack_id of that one row:
\* init_db inserts it and the only later statement on the table is the
\* UPDATE of switch_to_stack.
C27_CurrentStackExists ==
    Cardinality({s \in stacks : s.id = app_state}) = 1

\* drop_stack had validated the name of a stack that was not current, another
\* process made that stack current, and the DELETE of the stack was refused
C27_Witness ==
    /\ last.op = "drop_stack" /\ last.res = "Sqlite"
    /\ app_state # DEFAULT_STACK_ID
    /\ \E s \in stacks : s.id = app_state /\ s.name = "work"
====
